---- MODULE Spec2Model ----
(***************************************************************************)
(* The crawl frontier database of stract (core/src/crawler/crawl_db.rs):   *)
(* the DomainStateDb, the UrlStateDb (one BTreeMap per (domain, shard)),   *)
(* the RedirectDb, weighted_sample, and the operations of CrawlDb.         *)
(*                                                                         *)
(* A Url is a pair <<domain, path>>; a store is a function whose DOMAIN is  *)
(* the set of keys that were put.  f64 weights are the whole numbers the   *)
(* code produces (0.0, += 1.0, max).                                       *)
(***************************************************************************)
EXTENDS Integers, Sequences, FiniteSets, TLC

\* const URLS_PER_SHARD: usize = 5_000, scaled down so that a shard fills.
URLS_PER_SHARD == 2

\* Bounds of the explored inputs and of the counters the code leaves unbounded.
MaxPages == 1
MaxPath == 3
MaxLinkedPath == 2
MaxSeeds == 2
MaxDiscovered == 2
MaxWeight == 1
MaxShardId == 1
MaxNumJobs == 2
MaxUrlsPerJob == 1
MaxJobDomains == 2
MaxPriority == 1
MaxItems == 3
MaxNumItems == 4
MaxTracedUrlsPerJob == 2
MaxRecords == 2

VARIABLES
    domain_state,   \* DomainStateDb: Domain -> DomainState
    urls,           \* UrlStateDb: DomainShard -> BTreeMap<UrlString, UrlState>
    redirects,      \* RedirectDb: Url -> Url
    last,           \* the last call: its name, its arguments' summary, what it returned
    in_flight,      \* history: the domains sampled and not set back to Pending since
    links,          \* history: per URL, the source domains that linked to it
    paths           \* the file system: the paths that exist

vars == <<domain_state, urls, redirects, last, in_flight, links, paths>>

----------------------------------------------------------------------------
(* Values *)

Domains == {"a", "b", "c"}

\* The order in which DomainStateDb::iter walks the keys.
DomainOrder == <<"a", "b", "c">>

DomainIndex(domain) == CHOOSE i \in 1..Len(DomainOrder) : DomainOrder[i] = domain

\* The first n pages of a domain.
Pages(domain, n) == {<<domain, path>> : path \in 1..n}

\* Domain::from(&Url)
DomainOf(url) == url[1]

\* The order of the keys of a BTreeMap<UrlString, UrlState>.
UrlBefore(u, v) ==
    \/ DomainIndex(u[1]) < DomainIndex(v[1])
    \/ u[1] = v[1] /\ u[2] < v[2]

RECURSIVE SortUrls(_)
SortUrls(S) ==
    IF S = {} THEN <<>>
    ELSE LET first == CHOOSE u \in S : \A v \in S \ {u} : UrlBefore(u, v)
         IN  <<first>> \o SortUrls(S \ {first})

NewUrlState == [weight |-> 0, status |-> "Pending"]

NewDomainState(status) == [weight |-> 0, status |-> status, max_shard_id |-> 0]

DomainShard(domain, shard_id) == <<domain, shard_id>>

EmptyMap == [x \in {} |-> NewUrlState]

\* rocksdb put / BTreeMap::insert: the key is created or overwritten.
MapPut(m, key, value) == [k \in DOMAIN m \cup {key} |-> IF k = key THEN value ELSE m[k]]

\* get(key)?.unwrap_or_default() of a shard
ShardOrDefault(us, key) == IF key \in DOMAIN us THEN us[key] ELSE EmptyMap

Min(x, y) == IF x <= y THEN x ELSE y

Range(s) == {s[i] : i \in 1..Len(s)}

\* The elements of set S in the order of sequence order.
InOrder(order, S) == SelectSeq(order, LAMBDA x : x \in S)

\* Sequences over S of length at most n.
SeqsUpTo(S, n) == UNION {[1..k -> S] : k \in 0..n}

----------------------------------------------------------------------------
(* open *)

\* The directory a CrawlDb is opened on, and path.join(name) under it.
RootPath(path) == <<path>>

StorePath(path, name) == <<path, name>>

\* The stores in the order CrawlDb::open opens them.
StoreNames == <<"redirects", "domains", "urls">>

\* The paths of the first n stores a CrawlDb on path opens; rocksdb creates a
\* missing directory (create_if_missing) and the directories above it.
StorePaths(path, n) ==
    {StorePath(path, StoreNames[i]) : i \in 1..n} \cup (IF n > 0 THEN {RootPath(path)} ELSE {})

\* The outcomes of opening the stores one after the other: all of them are
\* opened, or the open of one returns Err after those before it were opened.
OpenStores(path, fs) ==
    {[err    |-> n < Len(StoreNames),
      opened |-> SubSeq(StoreNames, 1, n),
      paths  |-> fs \cup StorePaths(path, n)] : n \in 0..Len(StoreNames)}

\* CrawlDb::open without its test of path.exists().
open_NoGuard(path, fs) == OpenStores(path, fs)

\* The outcomes of CrawlDb::open(path) on the file system fs.
open(path, fs) ==
    IF RootPath(path) \in fs
    THEN {[err |-> TRUE, opened |-> <<>>, paths |-> fs]}
    ELSE OpenStores(path, fs)

----------------------------------------------------------------------------
(* insert_seed_urls *)

\* insert_seed_urls without its put of the DomainState.
SeedOne_NoDomainState(url, st) ==
    LET key   == DomainShard(DomainOf(url), 0)
        shard == MapPut(ShardOrDefault(st.urls, key), url, NewUrlState)
    IN  [domain_state |-> st.domain_state, urls |-> MapPut(st.urls, key, shard)]

\* insert_seed_urls adding 1.0 to the weight of a URL it finds in the shard.
SeedOne_AddsWeight(url, st) ==
    LET domain == DomainOf(url)
        ds1    == MapPut(st.domain_state, domain, NewDomainState("Pending"))
        key    == DomainShard(domain, 0)
        loaded == ShardOrDefault(st.urls, key)
        state  == IF url \in DOMAIN loaded
                  THEN [loaded[url] EXCEPT !.weight = (@ + 1) % (MaxWeight + 2)]
                  ELSE NewUrlState
    IN  [domain_state |-> ds1, urls |-> MapPut(st.urls, key, MapPut(loaded, url, state))]

\* One iteration of the loop of insert_seed_urls.
SeedOne(url, st) ==
    LET domain == DomainOf(url)
        ds1    == MapPut(st.domain_state, domain, NewDomainState("Pending"))
        key    == DomainShard(domain, 0)
        shard  == MapPut(ShardOrDefault(st.urls, key), url, NewUrlState)
    IN  [domain_state |-> ds1, urls |-> MapPut(st.urls, key, shard)]

RECURSIVE insert_seed_urls(_, _)
insert_seed_urls(seeds, st) ==
    IF seeds = <<>> THEN st
    ELSE insert_seed_urls(Tail(seeds), SeedOne(Head(seeds), st))

----------------------------------------------------------------------------
(* weighted_sample *)

\* The values a drawn priority -ln(u + EPSILON) / (weight + 1.0) takes in the
\* model: u is random, so any order and any tie between two items can occur.
Priorities == 0..MaxPriority

SampledItem(item, priority) == [item |-> item, priority |-> priority]

\* The places of the heap's least elements: a min-heap in place of the max-heap.
Tops_Least(heap) == {i \in 1..Len(heap) : \A j \in 1..Len(heap) : heap[i].priority <= heap[j].priority}

\* The places of the heap's greatest elements (SampledItem::cmp compares the
\* priorities only); BinaryHeap::peek_mut hands out one of them.
Tops(heap) == {i \in 1..Len(heap) : \A j \in 1..Len(heap) : heap[j].priority <= heap[i].priority}

\* The loop of weighted_sample writing the new item over every greatest element.
RECURSIVE SampleLoop_ReplacesAllTops(_, _, _, _)
SampleLoop_ReplacesAllTops(items, prios, num_items, heap) ==
    IF items = <<>> THEN {heap}
    ELSE LET new     == SampledItem(Head(items).item, Head(prios))
             rest(h) == SampleLoop_ReplacesAllTops(Tail(items), Tail(prios), num_items, h)
         IN  IF Len(heap) < num_items
             THEN rest(Append(heap, new))
             ELSE IF heap = <<>>
             THEN rest(heap)
             ELSE rest([j \in 1..Len(heap) |->
                           IF j \in Tops(heap) /\ new.priority < heap[j].priority
                           THEN new ELSE heap[j]])

\* The loop of weighted_sample from the heap built so far: the set of heaps it
\* can end with.  items[i] is (item, weight), prios[i] the priority drawn for it.
RECURSIVE SampleLoop(_, _, _, _)
SampleLoop(items, prios, num_items, heap) ==
    IF items = <<>> THEN {heap}
    ELSE LET item     == Head(items).item
             priority == Head(prios)
             rest(h)  == SampleLoop(Tail(items), Tail(prios), num_items, h)
         IN  IF Len(heap) < num_items
             THEN rest(Append(heap, SampledItem(item, priority)))
             ELSE IF heap = <<>>
             THEN rest(heap)
             ELSE UNION {IF priority < heap[i].priority
                         THEN rest([heap EXCEPT ![i] = SampledItem(item, priority)])
                         ELSE rest(heap) : i \in Tops(heap)}

\* weighted_sample with the heap allowed one item more than num_items.
weighted_sample_OneMore(items, prios, num_items) ==
    {[i \in 1..Len(heap) |-> heap[i].item] : heap \in SampleLoop(items, prios, num_items + 1, <<>>)}

\* The Vecs weighted_sample can return for the drawn priorities.
weighted_sample(items, prios, num_items) ==
    {[i \in 1..Len(heap) |-> heap[i].item] : heap \in SampleLoop(items, prios, num_items, <<>>)}

----------------------------------------------------------------------------
(* set_domain_status and sample_domains *)

\* set_domain_status putting a fresh DomainState whatever it read.
set_domain_status_Fresh(domain, status, ds) == MapPut(ds, domain, NewDomainState(status))

set_domain_status(domain, status, ds) ==
    LET state == IF domain \in DOMAIN ds THEN ds[domain] ELSE NewDomainState(status)
    IN  MapPut(ds, domain, [state EXCEPT !.status = status])

\* sample_domains without its filter on the status.
PendingDomains_NoFilter(ds) ==
    LET all == InOrder(DomainOrder, DOMAIN ds)
    IN  [i \in 1..Len(all) |-> [item |-> all[i], weight |-> ds[all[i]].weight]]

\* What sample_domains feeds the sampler: the Pending domains in iter order.
PendingDomains(ds) ==
    LET pending == InOrder(DomainOrder, {d \in DOMAIN ds : ds[d].status = "Pending"})
    IN  [i \in 1..Len(pending) |-> [item |-> pending[i], weight |-> ds[pending[i]].weight]]

\* The loop of sample_domains over the sampled domains.
RECURSIVE MarkInProgress(_, _)
MarkInProgress(sampled, ds) ==
    IF sampled = <<>> THEN ds
    ELSE LET domain == Head(sampled)
             state  == [ds[domain] EXCEPT !.status = "CrawlInProgress"]
         IN  MarkInProgress(Tail(sampled), MapPut(ds, domain, state))

----------------------------------------------------------------------------
(* insert_urls *)

Redirected(url, new_url) == [kind |-> "Redirected", url |-> url, new_url |-> new_url]

\* A UrlResponse of another variant: insert_urls reads none of its fields.
OtherResponse(url) == [kind |-> "Other", url |-> url]

\* bincode::serialize of a Url and bincode::deserialize of the bytes: the Url's
\* string behind a tag, so that the keys of the RedirectDb are bytes.
Serialize(url) == <<"bincode", url>>

Deserialize(bytes) == bytes[2]

\* RedirectDb::put that leaves a key it finds as it is.
RedirectDb_put_KeepsFirst(rd, from, to) ==
    IF Serialize(from) \in DOMAIN rd THEN rd ELSE MapPut(rd, Serialize(from), Serialize(to))

RedirectDb_put(rd, from, to) == MapPut(rd, Serialize(from), Serialize(to))

\* RedirectDb::get: <<>> for None, <<url>> for Some(url).
RedirectDb_get(rd, from) ==
    IF Serialize(from) \in DOMAIN rd THEN <<Deserialize(rd[Serialize(from)])>> ELSE <<>>

JobResponse(domain, discovered_urls, url_responses) ==
    [domain |-> domain, discovered_urls |-> discovered_urls, url_responses |-> url_responses]

UrlToInsert(url, different_domain) == [url |-> url, different_domain |-> different_domain]

\* Pass 1 over one response: its discovered URLs, each with different_domain.
Discovered(res) ==
    [i \in 1..Len(res.discovered_urls) |->
        UrlToInsert(res.discovered_urls[i], res.domain # DomainOf(res.discovered_urls[i]))]

RECURSIVE AllDiscovered(_)
AllDiscovered(responses) ==
    IF responses = <<>> THEN <<>>
    ELSE Discovered(Head(responses)) \o AllDiscovered(Tail(responses))

\* The HashMap<Domain, Vec<UrlToInsert>> pass 1 builds.
GroupByDomain(responses) ==
    LET all == AllDiscovered(responses)
    IN  [d \in {DomainOf(e.url) : e \in Range(all)} |->
            SelectSeq(all, LAMBDA e : DomainOf(e.url) = d)]

\* The redirect puts of one response, in record order.
RECURSIVE PutRedirects(_, _)
PutRedirects(url_responses, rd) ==
    IF url_responses = <<>> THEN rd
    ELSE LET r == Head(url_responses)
         IN  PutRedirects(Tail(url_responses),
                          IF r.kind = "Redirected" THEN RedirectDb_put(rd, r.url, r.new_url)
                                                   ELSE rd)

RECURSIVE ApplyRedirects(_, _)
ApplyRedirects(responses, rd) ==
    IF responses = <<>> THEN rd
    ELSE ApplyRedirects(Tail(responses), PutRedirects(Head(responses).url_responses, rd))

\* The inner loop of pass 2 over the URLs grouped under one domain.
RECURSIVE UrlLoop(_, _, _)
UrlLoop(entries, url_states, state) ==
    IF entries = <<>> THEN [url_states |-> url_states, domain_state |-> state]
    ELSE LET url    == Head(entries)
             found  == IF url.url \in DOMAIN url_states THEN url_states[url.url] ELSE NewUrlState
             weight == IF url.different_domain THEN found.weight + 1 ELSE found.weight
             url_state == [found EXCEPT !.weight = weight]
             state1 == IF weight > state.weight THEN [state EXCEPT !.weight = weight] ELSE state
         IN  UrlLoop(Tail(entries), MapPut(url_states, url.url, url_state), state1)

\* Whether insert_urls starts a new shard: the accepting shard is full.
ShardIsFull(url_states) == Cardinality(DOMAIN url_states) >= URLS_PER_SHARD

\* Pass 2 for one target domain, putting the shard under the id it loaded.
InsertDomain_PutsLoadedShard(domain, entries, st) ==
    LET known   == domain \in DOMAIN st.domain_state
        state0  == IF known THEN st.domain_state[domain] ELSE NewDomainState("Pending")
        loaded  == ShardOrDefault(st.urls, DomainShard(domain, state0.max_shard_id))
        full    == ShardIsFull(loaded)
        state1  == IF full THEN [state0 EXCEPT !.max_shard_id = @ + 1] ELSE state0
        start   == IF full THEN EmptyMap ELSE loaded
        done    == UrlLoop(entries, start, state1)
    IN  [domain_state |-> MapPut(st.domain_state, domain, done.domain_state),
         urls |-> MapPut(st.urls, DomainShard(domain, state0.max_shard_id), done.url_states)]

\* Pass 2 for one target domain.
InsertDomain(domain, entries, st) ==
    LET known   == domain \in DOMAIN st.domain_state
        state0  == IF known THEN st.domain_state[domain] ELSE NewDomainState("Pending")
        loaded  == ShardOrDefault(st.urls, DomainShard(domain, state0.max_shard_id))
        full    == ShardIsFull(loaded)
        state1  == IF full THEN [state0 EXCEPT !.max_shard_id = @ + 1] ELSE state0
        start   == IF full THEN EmptyMap ELSE loaded
        done    == UrlLoop(entries, start, state1)
    IN  [domain_state |-> MapPut(st.domain_state, domain, done.domain_state),
         urls |-> MapPut(st.urls, DomainShard(domain, state1.max_shard_id), done.url_states)]

\* The puts pass 2 makes for one target domain, in the order the code makes
\* them: the fresh DomainState of a domain that had none, the DomainState
\* after the loop, the shard.
DomainWrites(domain, entries, st) ==
    LET known   == domain \in DOMAIN st.domain_state
        state0  == IF known THEN st.domain_state[domain] ELSE NewDomainState("Pending")
        loaded  == ShardOrDefault(st.urls, DomainShard(domain, state0.max_shard_id))
        full    == ShardIsFull(loaded)
        state1  == IF full THEN [state0 EXCEPT !.max_shard_id = @ + 1] ELSE state0
        start   == IF full THEN EmptyMap ELSE loaded
        done    == UrlLoop(entries, start, state1)
        create  == IF known THEN <<>>
                   ELSE <<[store |-> "domain_state", key |-> domain, value |-> state0]>>
    IN  create \o
        <<[store |-> "domain_state", key |-> domain, value |-> done.domain_state],
          [store |-> "urls", key |-> DomainShard(domain, state1.max_shard_id),
           value |-> done.url_states]>>

\* The stores after the given puts.
RECURSIVE ApplyWrites(_, _)
ApplyWrites(writes, st) ==
    IF writes = <<>> THEN st
    ELSE LET w == Head(writes)
         IN  ApplyWrites(Tail(writes),
                         IF w.store = "urls"
                         THEN [st EXCEPT !.urls = MapPut(@, w.key, w.value)]
                         ELSE [st EXCEPT !.domain_state = MapPut(@, w.key, w.value)])

\* Pass 2: the target domains touch disjoint keys, so one order stands for all
\* orders of the HashMap's iteration.
RECURSIVE InsertDomains(_, _, _)
InsertDomains(order, groups, st) ==
    IF order = <<>> THEN st
    ELSE InsertDomains(Tail(order), groups, InsertDomain(Head(order), groups[Head(order)], st))

insert_urls(responses, st) ==
    LET groups == GroupByDomain(responses)
        stores == InsertDomains(InOrder(DomainOrder, DOMAIN groups), groups,
                                [domain_state |-> st.domain_state, urls |-> st.urls])
    IN  [domain_state |-> stores.domain_state,
         urls |-> stores.urls,
         redirects |-> ApplyRedirects(responses, st.redirects)]

----------------------------------------------------------------------------
(* prepare_jobs *)

Job(domain, job_urls) == [domain |-> domain, fetch_sitemap |-> FALSE, urls |-> job_urls]

\* available_urls: the Pending URLs of the shard, in the map's key order.
AvailableUrls(url_states) ==
    LET pending == SortUrls({u \in DOMAIN url_states : url_states[u].status = "Pending"})
    IN  [i \in 1..Len(pending) |-> [item |-> pending[i], weight |-> url_states[pending[i]].weight]]

\* prepare_jobs without the loop that sets the sampled URLs to Crawling.
MarkCrawling_Skipped(sampled, url_states) == url_states

\* The loop that sets the sampled URLs to Crawling.
RECURSIVE MarkCrawling(_, _)
MarkCrawling(sampled, url_states) ==
    IF sampled = <<>> THEN url_states
    ELSE LET url == Head(sampled)
         IN  MarkCrawling(Tail(sampled),
                          MapPut(url_states, url, [url_states[url] EXCEPT !.status = "Crawling"]))

\* The weight recompute without its filter on the status.
MaxPendingWeight_AnyStatus(url_states) ==
    LET weights == {url_states[u].weight : u \in DOMAIN url_states}
    IN  IF weights = {} THEN 0 ELSE CHOOSE w \in weights : \A x \in weights : x <= w

\* The greatest weight of a Pending URL of the shard, 0.0 when there is none.
MaxPendingWeight(url_states) ==
    LET weights == {url_states[u].weight : u \in {v \in DOMAIN url_states : url_states[v].status = "Pending"}}
    IN  IF weights = {} THEN 0 ELSE CHOOSE w \in weights : \A x \in weights : x <= w

\* The shard ids gen_range(0..=state.max_shard_id) can draw.
ShardChoices(state) == 0..state.max_shard_id

\* One iteration of the loop of prepare_jobs for a domain that has a state,
\* with the shard id and the sample that were drawn.
PrepareOne(domain, shard_id, sampled, st) ==
    LET shard        == DomainShard(domain, shard_id)
        url_states   == MarkCrawling(sampled, ShardOrDefault(st.urls, shard))
        state        == [st.domain_state[domain] EXCEPT !.weight = MaxPendingWeight(url_states)]
    IN  [domain_state |-> MapPut(st.domain_state, domain, state),
         urls |-> MapPut(st.urls, shard, url_states),
         jobs |-> Append(st.jobs, Job(domain, sampled)),
         shards |-> Append(st.shards, shard_id),
         panic |-> FALSE]

\* The outcomes of the loop of prepare_jobs over the remaining domains: the
\* stores, the jobs pushed so far with the shard id drawn for each, and whether
\* get(domain)?.unwrap() panicked on a domain without a state (the writes made
\* before it stay).
RECURSIVE PrepareLoop(_, _, _)
PrepareLoop(domains, urls_per_job, st) ==
    IF domains = <<>> THEN {st}
    ELSE LET domain == Head(domains)
         IN  IF domain \notin DOMAIN st.domain_state
             THEN {[st EXCEPT !.panic = TRUE]}
             ELSE UNION {
                    LET items == AvailableUrls(ShardOrDefault(st.urls, DomainShard(domain, shard_id)))
                    IN  UNION {
                          UNION {PrepareLoop(Tail(domains), urls_per_job,
                                             PrepareOne(domain, shard_id, sampled, st))
                                 : sampled \in weighted_sample(items, prios, urls_per_job)}
                          : prios \in [1..Len(items) -> Priorities]}
                    : shard_id \in ShardChoices(st.domain_state[domain])}

prepare_jobs(domains, urls_per_job, st) ==
    PrepareLoop(domains, urls_per_job,
                [domain_state |-> st.domain_state, urls |-> st.urls, jobs |-> <<>>,
                 shards |-> <<>>, panic |-> FALSE])

----------------------------------------------------------------------------
(* The calls, over the inputs a specification explores *)

Statuses == {"Pending", "CrawlInProgress"}

\* The discovered_urls of the explored responses: the order inside one Vec
\* does not change what pass 2 stores, so one order per multiset is explored.
DiscoveredSeqs(pages, n) ==
    {s \in SeqsUpTo(pages, n) : \A i \in 1..Len(s) - 1 : s[i] = s[i + 1] \/ UrlBefore(s[i], s[i + 1])}

\* The responses from one of sources that discover at most n of pages.
Responses(sources, pages, n) ==
    {JobResponse(d, s, <<>>) : d \in sources, s \in DiscoveredSeqs(pages, n)}

\* The batches of at most two responses that discover at most n URLs together.
Batches(sources, pages, n) ==
    LET one == Responses(sources, pages, n)
    IN  {<<>>} \cup {<<r>> : r \in one}
        \cup {<<r1, r2>> : r1, r2 \in {r \in one : r.discovered_urls # <<>>
                                                  /\ Len(r.discovered_urls) < n}}

\* The counters the code leaves unbounded stay within the explored range.
WithinBounds(st) ==
    /\ \A d \in DOMAIN st.domain_state :
          /\ st.domain_state[d].max_shard_id <= MaxShardId
          /\ st.domain_state[d].weight <= MaxWeight
    /\ \A k \in DOMAIN st.urls : \A u \in DOMAIN st.urls[k] : st.urls[k][u].weight <= MaxWeight

Stores == [domain_state |-> domain_state, urls |-> urls, redirects |-> redirects]

Ok(op) ==
    [op |-> op, panic |-> FALSE, num |-> 0, domains |-> <<>>, jobs |-> <<>>, shards |-> <<>>,
     targets |-> {}, responses |-> <<>>, interrupted |-> <<>>, failure |-> "",
     driver |-> FALSE]

\* The cross-domain occurrences of a batch, each as <<url, source domain>>.
RECURSIVE CrossLinks(_)
CrossLinks(responses) ==
    IF responses = <<>> THEN <<>>
    ELSE LET res == Head(responses)
             all == [i \in 1..Len(res.discovered_urls) |-> <<res.discovered_urls[i], res.domain>>]
         IN  SelectSeq(all, LAMBDA l : DomainOf(l[1]) # l[2]) \o CrossLinks(Tail(responses))

\* links after a batch: per URL the set of the domains that linked to it from
\* outside so far, and whether one of them did so more than once.
RecordLinks(responses, lk) ==
    LET cross   == CrossLinks(responses)
        linked  == {l[1] : l \in Range(cross)}
        old(u)  == IF u \in DOMAIN lk THEN lk[u] ELSE [sources |-> {}, repeated |-> FALSE]
        new(u)  == LET from == SelectSeq(cross, LAMBDA l : l[1] = u)
                       srcs == {l[2] : l \in Range(from)}
                   IN  [sources  |-> old(u).sources \cup srcs,
                        repeated |-> \/ old(u).repeated
                                     \/ Cardinality(srcs) < Len(from)
                                     \/ srcs \cap old(u).sources # {}]
    IN  [u \in DOMAIN lk \cup linked |-> IF u \in linked THEN new(u) ELSE lk[u]]

\* The stores of a CrawlDb that open returned, and the histories of its calls.
Opened ==
    /\ domain_state = [d \in {} |-> NewDomainState("Pending")]
    /\ urls = [k \in {} |-> EmptyMap]
    /\ redirects = [u \in {} |-> u]
    /\ in_flight = {}
    /\ links = [u \in {} |-> [sources |-> {}, repeated |-> FALSE]]

\* A CrawlDb opened on the path "p" of an empty file system.
Init ==
    /\ Opened
    /\ last = Ok("open")
    /\ paths = StorePaths("p", Len(StoreNames))

InsertSeedUrls(seed_lists) ==
    \E seeds \in seed_lists :
        LET st == insert_seed_urls(seeds, Stores)
        IN  /\ domain_state' = st.domain_state
            /\ urls' = st.urls
            /\ last' = Ok("insert_seed_urls")
            /\ UNCHANGED <<redirects, in_flight, links, paths>>

\* What one insert_urls call does to the stores.
InsertUrlsStores(responses) ==
    LET st == insert_urls(responses, Stores)
    IN  /\ WithinBounds(st)
        /\ domain_state' = st.domain_state
        /\ urls' = st.urls
        /\ redirects' = st.redirects
        /\ UNCHANGED <<in_flight, paths>>

\* One insert_urls call, without the history of the links.
InsertUrlsCall(responses) ==
    /\ InsertUrlsStores(responses)
    /\ last' = [Ok("insert_urls") EXCEPT !.targets = DOMAIN GroupByDomain(responses)]

InsertUrls(batches) ==
    \E responses \in batches : InsertUrlsCall(responses) /\ UNCHANGED links

\* insert_urls with its argument kept in last.
InsertUrlsTraced(batches) ==
    \E responses \in batches :
        /\ InsertUrlsStores(responses)
        /\ last' = [Ok("insert_urls") EXCEPT !.targets = DOMAIN GroupByDomain(responses),
                                             !.responses = responses]
        /\ UNCHANGED links

\* An insert_urls call that stops in pass 2, by a crash or by the Err of a put
\* returned through ?: pass 1 and its redirect puts are done, some target
\* domains are done (the HashMap yields them in any order), and of the puts
\* for one more domain only the first ones are made.  last.interrupted holds
\* that domain and the stores of the puts made for it.
InsertUrlsInterrupted(batches) ==
    \E responses \in batches :
        LET groups == GroupByDomain(responses)
        IN  \E domain \in DOMAIN groups :
            \E before \in SUBSET (DOMAIN groups \ {domain}) :
                LET st1    == InsertDomains(InOrder(DomainOrder, before), groups,
                                            [domain_state |-> domain_state, urls |-> urls])
                    writes == DomainWrites(domain, groups[domain], st1)
                IN  \E n \in 0..(Len(writes) - 1) :
                        LET st2 == ApplyWrites(SubSeq(writes, 1, n), st1)
                        IN  /\ WithinBounds(ApplyWrites(writes, st1))
                            /\ domain_state' = st2.domain_state
                            /\ urls' = st2.urls
                            /\ redirects' = ApplyRedirects(responses, redirects)
                            /\ last' = [Ok("insert_urls") EXCEPT
                                           !.targets = DOMAIN groups,
                                           !.responses = responses,
                                           !.interrupted =
                                               <<domain, [i \in 1..n |-> writes[i].store],
                                                 writes[n + 1].store>>]
                            /\ UNCHANGED <<in_flight, links, paths>>

\* The value that stands for stored DomainState bytes that fail
\* rkyv::check_archived_root.
Corrupted == [weight |-> 0, status |-> "corrupted", max_shard_id |-> 0]

\* DomainStateDb::get: None, Some(state), or the panic of
\* check_archived_root(..).unwrap() on bytes that fail validation.
DomainStateDb_get(ds, domain) ==
    IF domain \notin DOMAIN ds THEN [panic |-> FALSE, value |-> <<>>]
    ELSE IF ds[domain] = Corrupted THEN [panic |-> TRUE, value |-> <<>>]
    ELSE [panic |-> FALSE, value |-> <<ds[domain]>>]

\* The Redirected records of a batch, in the order pass 1 puts them.
RECURSIVE RedirectRecords(_)
RedirectRecords(responses) ==
    IF responses = <<>> THEN <<>>
    ELSE SelectSeq(Head(responses).url_responses, LAMBDA r : r.kind = "Redirected")
         \o RedirectRecords(Tail(responses))

\* The disk damages the stored bytes of a DomainState.
CorruptDomainState(domains) ==
    \E domain \in domains \cap DOMAIN domain_state :
        /\ domain_state' = [domain_state EXCEPT ![domain] = Corrupted]
        /\ last' = Ok("disk")
        /\ UNCHANGED <<urls, redirects, in_flight, links, paths>>

\* insert_urls where a put of the engine can fail and a stored DomainState can
\* fail validation: the n-th redirect put fails and self.redirects.put(..)
\* .unwrap() panics; or pass 2 reaches a target domain whose bytes are damaged
\* and self.domain_state.get(&domain) panics, after the target domains the
\* HashMap yielded before it; or the call returns Ok(()).
InsertUrlsFallible(batches) ==
    \E responses \in batches :
        LET records == RedirectRecords(responses)
            groups  == GroupByDomain(responses)
            damaged == {d \in DOMAIN groups : DomainStateDb_get(domain_state, d).panic}
            called  == [Ok("insert_urls") EXCEPT !.targets = DOMAIN groups,
                                                !.responses = responses]
        IN  \/ \E n \in 1..Len(records) :
                  /\ redirects' = PutRedirects(SubSeq(records, 1, n - 1), redirects)
                  /\ last' = [called EXCEPT !.panic = TRUE, !.failure = "redirect put"]
                  /\ UNCHANGED <<domain_state, urls, in_flight, links, paths>>
            \/ /\ damaged # {}
               /\ \E before \in SUBSET (DOMAIN groups \ damaged) :
                     LET st == InsertDomains(InOrder(DomainOrder, before), groups,
                                             [domain_state |-> domain_state, urls |-> urls])
                     IN  /\ WithinBounds(st)
                         /\ domain_state' = st.domain_state
                         /\ urls' = st.urls
               /\ redirects' = ApplyRedirects(responses, redirects)
               /\ last' = [called EXCEPT !.panic = TRUE, !.failure = "domain state get"]
               /\ UNCHANGED <<in_flight, links, paths>>
            \/ /\ damaged = {}
               /\ InsertUrlsStores(responses)
               /\ last' = called
               /\ UNCHANGED links

\* set_domain_status where the get can find damaged bytes (it panics) and the
\* put of the engine can fail (the Err is returned through ?).
SetDomainStatusFallible(domains) ==
    \E domain \in domains, status \in Statuses :
        \/ /\ DomainStateDb_get(domain_state, domain).panic
           /\ last' = [Ok("set_domain_status") EXCEPT !.panic = TRUE,
                                                      !.failure = "domain state get"]
           /\ UNCHANGED <<domain_state, urls, redirects, in_flight, links, paths>>
        \/ /\ ~DomainStateDb_get(domain_state, domain).panic
           /\ last' = [Ok("set_domain_status") EXCEPT !.failure = "domain state put"]
           /\ UNCHANGED <<domain_state, urls, redirects, in_flight, links, paths>>
        \/ /\ ~DomainStateDb_get(domain_state, domain).panic
           /\ domain_state' = set_domain_status(domain, status, domain_state)
           /\ last' = Ok("set_domain_status")
           /\ in_flight' = IF status = "Pending" THEN in_flight \ {domain} ELSE in_flight
           /\ UNCHANGED <<urls, redirects, links, paths>>

\* insert_urls with the history variable links kept.
InsertUrlsLinked(batches) ==
    \E responses \in batches :
        InsertUrlsCall(responses) /\ links' = RecordLinks(responses, links)

SetDomainStatus(domains) ==
    \E domain \in domains, status \in Statuses :
        /\ domain_state' = set_domain_status(domain, status, domain_state)
        /\ last' = Ok("set_domain_status")
        /\ in_flight' = IF status = "Pending" THEN in_flight \ {domain} ELSE in_flight
        /\ UNCHANGED <<urls, redirects, links, paths>>

SampleDomains ==
    \E num_jobs \in 0..MaxNumJobs :
        LET items == PendingDomains(domain_state)
        IN  \E prios \in [1..Len(items) -> Priorities] :
                \E sampled \in weighted_sample(items, prios, num_jobs) :
                    /\ domain_state' = MarkInProgress(sampled, domain_state)
                    /\ last' = [Ok("sample_domains") EXCEPT !.num = num_jobs, !.domains = sampled]
                    /\ in_flight' = in_flight \cup Range(sampled)
                    /\ UNCHANGED <<urls, redirects, links, paths>>

\* What a prepare_jobs call that ended as out leaves in last: a panic returns
\* no jobs.
PrepareJobsReturn(domains, urls_per_job, out) ==
    [Ok("prepare_jobs") EXCEPT !.num = urls_per_job, !.panic = out.panic, !.domains = domains,
                               !.jobs = IF out.panic THEN <<>> ELSE out.jobs]

PrepareJobs(domain_lists) ==
    \E domains \in domain_lists, urls_per_job \in 0..MaxUrlsPerJob :
        \E out \in prepare_jobs(domains, urls_per_job, Stores) :
            /\ domain_state' = out.domain_state
            /\ urls' = out.urls
            /\ last' = PrepareJobsReturn(domains, urls_per_job, out)
            /\ UNCHANGED <<redirects, in_flight, links, paths>>

\* prepare_jobs with the shard ids it drew kept in last.
PrepareJobsTraced(domain_lists) ==
    \E domains \in domain_lists, urls_per_job \in 0..MaxTracedUrlsPerJob :
        \E out \in prepare_jobs(domains, urls_per_job, Stores) :
            /\ domain_state' = out.domain_state
            /\ urls' = out.urls
            /\ last' = [PrepareJobsReturn(domains, urls_per_job, out) EXCEPT !.shards = out.shards]
            /\ UNCHANGED <<redirects, in_flight, links, paths>>

----------------------------------------------------------------------------
(* Spec: two domains with MaxPages pages each, every call *)

SpecDomains == {"a", "b"}

SpecPages == Pages("a", MaxPages) \cup Pages("b", MaxPages)

SpecSeeds == SeqsUpTo(SpecPages, MaxSeeds)

SpecBatches == Batches(SpecDomains, SpecPages, MaxDiscovered)

SpecJobDomains == SeqsUpTo(SpecDomains, MaxJobDomains)

Next ==
    \/ InsertSeedUrls(SpecSeeds)
    \/ InsertUrls(SpecBatches)
    \/ SetDomainStatus(SpecDomains)
    \/ SampleDomains
    \/ PrepareJobs(SpecJobDomains)

Spec == Init /\ [][Next]_vars

----------------------------------------------------------------------------
(* SpecShards: one domain with MaxPath pages, linked from inside only *)

ShardSeeds == SeqsUpTo(Pages("a", MaxPath), 1)

ShardBatches == Batches({"a"}, Pages("a", MaxPath), MaxDiscovered)

OneJobDomain == SeqsUpTo({"a"}, 1)

NextShards ==
    \/ InsertSeedUrls(ShardSeeds)
    \/ InsertUrls(ShardBatches)
    \/ SetDomainStatus({"a"})
    \/ SampleDomains
    \/ PrepareJobs(OneJobDomain)

SpecShards == Init /\ [][NextShards]_vars

----------------------------------------------------------------------------
(* SpecLinks: a frontier filled by insert_urls alone (no seeds), one domain  *)
(* with MaxLinkedPath pages, linked from a, b and c, one response a batch.   *)
(* The history variable links is kept.                                       *)

LinkBatches == {<<r>> : r \in Responses(Domains, Pages("a", MaxLinkedPath), MaxDiscovered)}

NextLinks ==
    \/ InsertUrlsLinked(LinkBatches)
    \/ SetDomainStatus({"a"})
    \/ SampleDomains
    \/ PrepareJobs(OneJobDomain)

SpecLinks == Init /\ [][NextLinks]_vars

----------------------------------------------------------------------------
(* SpecJobs: domain a with MaxLinkedPath pages, linked from a and b, domain b *)
(* with a state once set_domain_status gave it one, and prepare_jobs on lists *)
(* over a and b, a twice in one list included.  The drawn shard ids are kept  *)
(* in last.                                                                   *)

JobBatches == {<<r>> : r \in Responses(SpecDomains, Pages("a", MaxLinkedPath), MaxDiscovered)}

TracedJobDomains == SeqsUpTo({"a"}, MaxJobDomains) \cup {<<"a", "b">>, <<"b", "a">>}

NextJobs ==
    \/ InsertUrls(JobBatches)
    \/ SetDomainStatus({"b"})
    \/ PrepareJobsTraced(TracedJobDomains)

SpecJobs == Init /\ [][NextJobs]_vars

----------------------------------------------------------------------------
(* SpecRedirects: insert_urls on batches of one or two responses from a that  *)
(* carry Redirected records between the pages of a, records of another        *)
(* variant, and at most one discovered URL.                                   *)

RedirectPages == Pages("a", MaxLinkedPath)

UrlResponses ==
    {Redirected(u, v) : u, v \in RedirectPages} \cup {OtherResponse(u) : u \in Pages("a", 1)}

RedirectResponses(n) ==
    {JobResponse("a", d, r) : d \in SeqsUpTo(Pages("a", 1), 1), r \in SeqsUpTo(UrlResponses, n)}

RedirectBatches ==
    {<<r>> : r \in RedirectResponses(MaxRecords)}
    \cup {<<r1, r2>> : r1, r2 \in RedirectResponses(MaxRecords - 1)}

NextRedirects == InsertUrlsTraced(RedirectBatches)

SpecRedirects == Init /\ [][NextRedirects]_vars

----------------------------------------------------------------------------
(* SpecOpen: CrawlDb::open on the paths of Roots, some of which exist as      *)
(* directories before the first call.  The stores are those of the CrawlDb    *)
(* returned last.                                                             *)

Roots == {"p", "q", "r"}

InitOpen ==
    /\ Opened
    /\ last = [op |-> "start", path |-> "", err |-> FALSE, opened |-> <<>>]
    /\ \E existing \in SUBSET Roots : paths = {RootPath(path) : path \in existing}

Open ==
    \E path \in Roots :
        \E out \in open(path, paths) :
            /\ paths' = out.paths
            /\ last' = [op |-> "open", path |-> path, err |-> out.err, opened |-> out.opened]
            /\ UNCHANGED <<domain_state, urls, redirects, in_flight, links>>

SpecOpen == InitOpen /\ [][Open]_vars

----------------------------------------------------------------------------
(* SpecWrites: insert_urls on domain a with MaxLinkedPath pages, linked from  *)
(* a and b, where a call returns or stops between two of its puts.            *)

NextWrites ==
    \/ InsertUrlsTraced(JobBatches)
    \/ InsertUrlsInterrupted(JobBatches)

SpecWrites == Init /\ [][NextWrites]_vars

----------------------------------------------------------------------------
(* SpecFailures: domain a, where a put of the engine can fail and the disk    *)
(* can damage the stored DomainState; insert_seed_urls puts without reading.  *)

FailureSeeds == SeqsUpTo(Pages("a", 1), 1)

FailureBatches == {<<r>> : r \in RedirectResponses(MaxRecords)}

NextFailures ==
    \/ InsertSeedUrls(FailureSeeds)
    \/ InsertUrlsFallible(FailureBatches)
    \/ SetDomainStatusFallible({"a"})
    \/ CorruptDomainState({"a"})

SpecFailures == Init /\ [][NextFailures]_vars

----------------------------------------------------------------------------
(* SpecSample: weighted_sample alone, on every list of at most MaxItems      *)
(* (item, weight) pairs, equal items included, and every num_items up to     *)
(* MaxNumItems.  last holds the arguments and, after the call, the Vec.      *)

SampleValues == {"x", "y"}

SampleInputs ==
    SeqsUpTo([item : SampleValues, weight : 0..MaxWeight], MaxItems)

InitSample ==
    /\ Opened
    /\ paths = StorePaths("p", Len(StoreNames))
    /\ \E items \in SampleInputs, num_items \in 0..MaxNumItems :
          last = [op |-> "items", items |-> items, num |-> num_items, result |-> <<>>]

WeightedSample ==
    /\ \E prios \in [1..Len(last.items) -> Priorities] :
          \E result \in weighted_sample(last.items, prios, last.num) :
              last' = [last EXCEPT !.op = "weighted_sample", !.result = result]
    /\ UNCHANGED <<domain_state, urls, redirects, in_flight, links, paths>>

SpecSample == InitSample /\ [][WeightedSample]_vars

----------------------------------------------------------------------------
(* SpecDriver: domain a with MaxLinkedPath pages is filled by insert_seed_urls *)
(* and insert_urls; then a driver repeats for ever sample_domains(n >= 1),     *)
(* prepare_jobs(sampled, k >= 1) and set_domain_status(d, Pending) for each    *)
(* sampled d.  The driver does not stop, and a shard id or a sample that the   *)
(* random draws can produce again and again is produced.                       *)

DriverPages == Pages("a", MaxLinkedPath)

DriverSeeds == SeqsUpTo(DriverPages, 1)

DriverBatches == {<<r>> : r \in Responses({"a"}, DriverPages, MaxDiscovered)}

DriverShards == {DomainShard("a", shard_id) : shard_id \in 0..MaxShardId}

FillSeeds == ~last.driver /\ InsertSeedUrls(DriverSeeds)

FillUrls == ~last.driver /\ InsertUrls(DriverBatches)

StartDriver ==
    /\ ~last.driver
    /\ last' = [Ok("driver") EXCEPT !.driver = TRUE]
    /\ UNCHANGED <<domain_state, urls, redirects, in_flight, links, paths>>

DriverSample ==
    /\ last.driver
    /\ last.op \in {"driver", "set_domain_status"}
    /\ \E num_jobs \in 1..MaxNumJobs :
          LET items == PendingDomains(domain_state)
          IN  \E prios \in [1..Len(items) -> Priorities] :
                  \E sampled \in weighted_sample(items, prios, num_jobs) :
                      /\ domain_state' = MarkInProgress(sampled, domain_state)
                      /\ last' = [Ok("sample_domains") EXCEPT !.domains = sampled,
                                                              !.driver = TRUE]
                      /\ in_flight' = in_flight \cup Range(sampled)
    /\ UNCHANGED <<urls, redirects, links, paths>>

DriverPrepare ==
    /\ last.driver
    /\ last.op = "sample_domains"
    /\ \E urls_per_job \in 1..MaxTracedUrlsPerJob :
          \E out \in prepare_jobs(last.domains, urls_per_job, Stores) :
              /\ domain_state' = out.domain_state
              /\ urls' = out.urls
              /\ last' = [Ok("prepare_jobs") EXCEPT !.domains = last.domains, !.driver = TRUE]
    /\ UNCHANGED <<redirects, in_flight, links, paths>>

\* set_domain_status(d, Pending) for each sampled d.
RECURSIVE ReleaseAll(_, _)
ReleaseAll(domains, ds) ==
    IF domains = <<>> THEN ds
    ELSE ReleaseAll(Tail(domains), set_domain_status(Head(domains), "Pending", ds))

DriverRelease ==
    /\ last.driver
    /\ last.op = "prepare_jobs"
    /\ domain_state' = ReleaseAll(last.domains, domain_state)
    /\ last' = [Ok("set_domain_status") EXCEPT !.driver = TRUE]
    /\ in_flight' = in_flight \ Range(last.domains)
    /\ UNCHANGED <<urls, redirects, links, paths>>

NextDriver ==
    \/ FillSeeds
    \/ FillUrls
    \/ StartDriver
    \/ DriverSample
    \/ DriverPrepare
    \/ DriverRelease

\* prepare_jobs sets URL u of shard key to Crawling.
Crawls(key, u) ==
    /\ DriverPrepare
    /\ key \in DOMAIN urls /\ u \in DOMAIN urls[key] /\ urls[key][u].status = "Pending"
    /\ urls'[key][u].status = "Crawling"

DriverFairness ==
    /\ WF_vars(DriverSample)
    /\ WF_vars(DriverPrepare)
    /\ WF_vars(DriverRelease)
    /\ \A key \in DriverShards : \A u \in DriverPages : SF_vars(Crawls(key, u))

SpecDriver == Init /\ [][NextDriver]_vars /\ DriverFairness

----------------------------------------------------------------------------
(* SpecSampleSteps: the loop of weighted_sample one iteration a step, on the  *)
(* inputs of SpecSample with every drawn priority.  last holds the arguments, *)
(* the drawn priorities, the number of items offered so far and the heap.     *)

InitSampleSteps ==
    /\ Opened
    /\ paths = StorePaths("p", Len(StoreNames))
    /\ \E items \in SampleInputs, num_items \in 0..MaxNumItems :
          \E prios \in [1..Len(items) -> Priorities] :
              last = [op |-> "weighted_sample", items |-> items, prios |-> prios,
                      num |-> num_items, offered |-> 0, heap |-> <<>>]

\* One iteration of the loop: the next item is pushed, replaces a greatest
\* element, or is dropped.
SampleStep ==
    /\ last.offered < Len(last.items)
    /\ \E heap \in SampleLoop(<<last.items[last.offered + 1]>>, <<last.prios[last.offered + 1]>>,
                               last.num, last.heap) :
          last' = [last EXCEPT !.offered = @ + 1, !.heap = heap]
    /\ UNCHANGED <<domain_state, urls, redirects, in_flight, links, paths>>

SpecSampleSteps == InitSampleSteps /\ [][SampleStep]_vars

----------------------------------------------------------------------------
(* Claims *)

\* The shard keys of a domain, and the URLs stored under any of them.
ShardsOf(domain) == {k \in DOMAIN urls : k[1] = domain}

StoredUrls(domain) == UNION {DOMAIN urls[k] : k \in ShardsOf(domain)}

PendingSet(ds) == {d \in DOMAIN ds : ds[d].status = "Pending"}

\* C1: a domain that sample_domains returned is not returned by a later
\* sample_domains unless set_domain_status(d, Pending) was called in between,
\* whatever other calls are made in between.
C1_NoResampleWhileInFlight ==
    [][last'.op = "sample_domains" => Range(last'.domains) \cap in_flight = {}]_vars

\* C2: every domain sample_domains returns was Pending in the DomainStateDb
\* when it was called; a CrawlInProgress domain is never returned.
C2_SampledWerePending ==
    [][last'.op = "sample_domains" =>
          \A d \in Range(last'.domains) :
              d \in DOMAIN domain_state /\ domain_state[d].status = "Pending"]_vars

\* sample_domains returned a domain while another one was CrawlInProgress.
C2_Witness ==
    /\ last.op = "sample_domains"
    /\ last.domains # <<>>
    /\ \E d \in DOMAIN domain_state \ Range(last.domains) :
          domain_state[d].status = "CrawlInProgress"

\* C3: sample_domains(n) returns min(n, number of Pending domains) pairwise
\* distinct domains; each returned domain becomes CrawlInProgress with its
\* weight and max_shard_id kept; every other DomainState and every shard is
\* unchanged.
C3_SampleDomainsEffect ==
    [][last'.op = "sample_domains" =>
          LET ret == last'.domains
          IN  /\ Len(ret) = Min(last'.num, Cardinality(PendingSet(domain_state)))
              /\ \A i, j \in 1..Len(ret) : i # j => ret[i] # ret[j]
              /\ DOMAIN domain_state' = DOMAIN domain_state
              /\ \A d \in DOMAIN domain_state :
                    domain_state'[d] = IF d \in Range(ret)
                                       THEN [domain_state[d] EXCEPT !.status = "CrawlInProgress"]
                                       ELSE domain_state[d]
              /\ urls' = urls]_vars

\* sample_domains(1) returned one of two Pending domains, the other one stays
\* Pending, and a shard is stored.
C3_Witness ==
    /\ last.op = "sample_domains"
    /\ last.num = 1
    /\ Len(last.domains) = 1
    /\ PendingSet(domain_state) # {}
    /\ DOMAIN urls # {}

\* C4: every stored shard key (d, s) has s <= DomainState[d].max_shard_id.
C4_ShardIdWithinMax ==
    \A k \in DOMAIN urls :
        k[1] \in DOMAIN domain_state => k[2] <= domain_state[k[1]].max_shard_id

\* C5: every domain of a stored shard key has a DomainState.
C5_ShardDomainHasState == \A k \in DOMAIN urls : k[1] \in DOMAIN domain_state

\* prepare_jobs stored a shard for a domain that had a state and no shard, and
\* a later prepare_jobs panicked on a domain without a state.
C5_Witness ==
    /\ last.op = "prepare_jobs"
    /\ last.panic
    /\ \E k \in DOMAIN urls : urls[k] = EmptyMap
    /\ DOMAIN domain_state # SpecDomains

\* C6: at the return of insert_urls, the weight of every domain that received
\* discovered URLs is >= the weight of every Pending URL in any of its shards.
C6_DomainWeightCoversPending ==
    last.op = "insert_urls" =>
        \A d \in last.targets : \A k \in ShardsOf(d) : \A u \in DOMAIN urls[k] :
            urls[k][u].status = "Pending" => domain_state[d].weight >= urls[k][u].weight

\* C7: no call decreases the weight stored for a URL that is in a shard.
C7_UrlWeightNeverDecreases ==
    [][\A k \in DOMAIN urls : \A u \in DOMAIN urls[k] :
          (k \in DOMAIN urls' /\ u \in DOMAIN urls'[k]) =>
              urls'[k][u].weight >= urls[k][u].weight]_vars

\* C8: every stored shard holds at most URLS_PER_SHARD URLs.
C8_ShardSizeBounded == \A k \in DOMAIN urls : Cardinality(DOMAIN urls[k]) <= URLS_PER_SHARD

\* C9: once URLS_PER_SHARD + m distinct URLs of a domain (1 <= m <=
\* URLS_PER_SHARD) are in the frontier, each stored once, the domain's
\* max_shard_id is 1, shard 0 holds URLS_PER_SHARD of them and shard 1 the rest.
C9_Rollover ==
    \A d \in DOMAIN domain_state :
        LET all   == StoredUrls(d)
            once  == \A k1, k2 \in ShardsOf(d) : k1 # k2 => DOMAIN urls[k1] \cap DOMAIN urls[k2] = {}
            first == ShardOrDefault(urls, DomainShard(d, 0))
            next  == ShardOrDefault(urls, DomainShard(d, 1))
        IN  (/\ Cardinality(all) > URLS_PER_SHARD
             /\ Cardinality(all) <= 2 * URLS_PER_SHARD
             /\ once)
            => /\ domain_state[d].max_shard_id = 1
               /\ Cardinality(DOMAIN first) = URLS_PER_SHARD
               /\ DOMAIN next = all \ DOMAIN first

\* C10: a cross-domain occurrence adds 1 to a URL's weight and a same-domain
\* one adds 0, so that after N distinct source domains have linked to a URL
\* (each once), the URL is stored with weight N.
C10_WeightCountsLinkingDomains ==
    \A u \in DOMAIN links :
        ~links[u].repeated =>
            \E k \in ShardsOf(DomainOf(u)) :
                u \in DOMAIN urls[k] /\ urls[k][u].weight = Cardinality(links[u].sources)

\* The two stores insert_seed_urls writes.
SeedStores(st) == [domain_state |-> st.domain_state, urls |-> st.urls]

EmptyStores == [domain_state |-> [d \in {} |-> NewDomainState("Pending")], urls |-> [k \in {} |-> EmptyMap]]

\* C11: insert_seed_urls(U) twice leaves the stores that insert_seed_urls(U)
\* once leaves, from any state; from the empty frontier, shard (d, 0) then
\* holds exactly the URLs of U on d, each with weight 0 and Pending, and the
\* DomainState of d is {0, Pending, 0}.
C11_SeedsIdempotent ==
    [][last'.op = "insert_seed_urls" =>
          \A seeds \in SpecSeeds :
              LET once  == insert_seed_urls(seeds, SeedStores(Stores))
                  after == [domain_state |-> domain_state', urls |-> urls']
              IN  after = once =>
                    /\ insert_seed_urls(seeds, after) = after
                    /\ SeedStores(Stores) = EmptyStores =>
                          /\ DOMAIN domain_state' = {DomainOf(u) : u \in Range(seeds)}
                          /\ DOMAIN urls' = {DomainShard(d, 0) : d \in DOMAIN domain_state'}
                          /\ \A d \in DOMAIN domain_state' :
                                /\ domain_state'[d] = [weight |-> 0, status |-> "Pending", max_shard_id |-> 0]
                                /\ DOMAIN urls'[DomainShard(d, 0)] = {u \in Range(seeds) : DomainOf(u) = d}
                                /\ \A u \in DOMAIN urls'[DomainShard(d, 0)] :
                                      urls'[DomainShard(d, 0)][u] = [weight |-> 0, status |-> "Pending"]]_vars

\* insert_seed_urls ran on a frontier where a seeded URL had been linked from
\* another domain and its domain was being crawled.
C11_Witness ==
    /\ last.op = "insert_seed_urls"
    /\ DOMAIN domain_state = SpecDomains
    /\ \E k \in DOMAIN urls : \E u \in DOMAIN urls[k] : urls[k][u].weight > 0
    /\ \E d \in DOMAIN domain_state : domain_state[d].status = "CrawlInProgress"

\* The injections from the places of one sequence into the places of another.
Injections(from, to) ==
    {f \in [1..Len(from) -> 1..Len(to)] : \A i, j \in 1..Len(from) : i # j => f[i] # f[j]}

\* C12: weighted_sample(items, k) returns min(k, |items|) elements, for k = 0
\* and k > |items| too, and the result is a sub-collection of the offered
\* items: every offered element is in it at most once.
C12_SampleSize ==
    last.op = "weighted_sample" =>
        /\ Len(last.result) = Min(last.num, Len(last.items))
        /\ \E f \in Injections(last.result, last.items) :
              \A i \in 1..Len(last.result) : last.result[i] = last.items[f[i]].item

\* weighted_sample kept two of three offered items, the last offered one among
\* them, where two offered items were equal.
C12_Witness ==
    /\ last.op = "weighted_sample"
    /\ Len(last.items) = 3
    /\ last.num = 2
    /\ last.items[1].item = last.items[2].item
    /\ last.items[3].item # last.items[1].item
    /\ last.items[3].item \in Range(last.result)

\* The Pending URLs of a shard of the given stores.
PendingUrls(us, key) ==
    LET url_states == ShardOrDefault(us, key)
    IN  {u \in DOMAIN url_states : url_states[u].status = "Pending"}

\* The URLs the jobs before job i of the last call took from job i's shard.
TakenBefore(i) ==
    UNION {Range(last'.jobs[j].urls) :
             j \in {h \in 1..(i - 1) : /\ last'.domains[h] = last'.domains[i]
                                       /\ last'.shards[h] = last'.shards[i]}}

\* C13: prepare_jobs(domains, k) returns one Job per input domain, in input
\* order, each with min(k, Pending URLs of the selected shard) URLs; every URL
\* of a job was Pending in the selected shard before the call and is Crawling
\* in it after the call (so that the next prepare_jobs on that shard, which
\* offers Pending URLs only, returns none of them).
C13_JobsTakePending ==
    [][(last'.op = "prepare_jobs" /\ ~last'.panic) =>
          /\ Len(last'.jobs) = Len(last'.domains)
          /\ \A i \in 1..Len(last'.jobs) :
                LET job       == last'.jobs[i]
                    key       == DomainShard(job.domain, last'.shards[i])
                    available == PendingUrls(urls, key) \ TakenBefore(i)
                IN  /\ job.domain = last'.domains[i]
                    /\ Len(job.urls) = Min(last'.num, Cardinality(available))
                    /\ \A m, n \in 1..Len(job.urls) : m # n => job.urls[m] # job.urls[n]
                    /\ Range(job.urls) \subseteq available
                    /\ \A u \in Range(job.urls) : urls'[key][u].status = "Crawling"
                    /\ Range(job.urls) \cap PendingUrls(urls', key) = {}]_vars

\* prepare_jobs([a, b], 1) returned a job with one of two Pending URLs of a
\* shard of a, and an empty job for b.
C13_Witness ==
    /\ last.op = "prepare_jobs"
    /\ ~last.panic
    /\ last.domains = <<"a", "b">>
    /\ last.num = 1
    /\ Len(last.jobs[1].urls) = 1
    /\ last.jobs[2].urls = <<>>
    /\ PendingUrls(urls, DomainShard("a", last.shards[1])) # {}

\* The shard drawn for a domain by the last job of the last call that names it.
SelectedShard(d) ==
    LET i == CHOOSE h \in 1..Len(last.domains) :
                 /\ last.domains[h] = d
                 /\ \A j \in (h + 1)..Len(last.domains) : last.domains[j] # d
    IN  DomainShard(d, last.shards[i])

\* C17: at the return of prepare_jobs, the weight of every processed domain is
\* the greatest weight of a URL still Pending in the shard selected for it, and
\* 0 when that shard has no Pending URL; the other shards are not read.
C17_WeightFromSelectedShard ==
    (last.op = "prepare_jobs" /\ ~last.panic) =>
        \A d \in Range(last.domains) :
            LET key     == SelectedShard(d)
                pending == PendingUrls(urls, key)
                weight  == domain_state[d].weight
            IN  IF pending = {} THEN weight = 0
                ELSE /\ \A u \in pending : urls[key][u].weight <= weight
                     /\ \E u \in pending : urls[key][u].weight = weight

\* prepare_jobs returned with the weight of a set to 0 from the selected shard
\* while another shard of a holds a Pending URL of weight 1.
C17_Witness ==
    /\ last.op = "prepare_jobs"
    /\ ~last.panic
    /\ "a" \in Range(last.domains)
    /\ domain_state["a"].weight = 0
    /\ \E k \in ShardsOf("a") \ {SelectedShard("a")} :
          \E u \in PendingUrls(urls, k) : urls[k][u].weight = 1

\* The url_responses of a batch, in response and record order.
RECURSIVE AllRecords(_)
AllRecords(responses) ==
    IF responses = <<>> THEN <<>>
    ELSE Head(responses).url_responses \o AllRecords(Tail(responses))

\* C14: the redirect map is last-write-wins: after an insert_urls call,
\* RedirectDb::get(u) is the new_url of the last Redirected record for u of the
\* batch, in response and record order, every record of every response being
\* applied; for a URL without a record it is what it was, None from the start.
C14_RedirectsLastWriteWins ==
    [][last'.op = "insert_urls" =>
          LET records == AllRecords(last'.responses)
          IN  \A u \in RedirectPages :
                  LET places == {i \in 1..Len(records) :
                                    records[i].kind = "Redirected" /\ records[i].url = u}
                      final  == CHOOSE i \in places : \A j \in places : j <= i
                  IN  RedirectDb_get(redirects', u) =
                          IF places = {} THEN RedirectDb_get(redirects, u)
                          ELSE <<records[final].new_url>>]_vars

\* A batch of two responses redirected one URL twice, to two URLs, and the
\* store holds the second; the other URL has no redirect.
C14_Witness ==
    /\ last.op = "insert_urls"
    /\ Len(last.responses) = 2
    /\ \E u, v, w \in RedirectPages :
          /\ v # w
          /\ last.responses[1].url_responses = <<Redirected(u, v)>>
          /\ last.responses[2].url_responses = <<Redirected(u, w)>>
          /\ RedirectDb_get(redirects, u) = <<w>>
          /\ \E x \in RedirectPages : RedirectDb_get(redirects, x) = <<>>

\* C15: set_domain_status(d, s) makes no check of the transition: a known d
\* gets status s and keeps its weight and max_shard_id, an unknown d gets the
\* DomainState {0, s, 0}; no other DomainState, no shard and no redirect
\* changes.
C15_SetDomainStatusEffect ==
    [][last'.op = "set_domain_status" =>
          /\ \E d \in SpecDomains, s \in Statuses :
                domain_state' = set_domain_status(d, s, domain_state)
          /\ \A d \in SpecDomains, s \in Statuses :
                domain_state' = set_domain_status(d, s, domain_state) =>
                    /\ DOMAIN domain_state' = DOMAIN domain_state \cup {d}
                    /\ domain_state'[d] =
                          IF d \in DOMAIN domain_state
                          THEN [weight |-> domain_state[d].weight, status |-> s,
                                max_shard_id |-> domain_state[d].max_shard_id]
                          ELSE [weight |-> 0, status |-> s, max_shard_id |-> 0]
                    /\ \A e \in DOMAIN domain_state \ {d} : domain_state'[e] = domain_state[e]
          /\ urls' = urls
          /\ redirects' = redirects]_vars

\* set_domain_status ran; a domain with weight 1 is CrawlInProgress and a
\* domain without any shard has the DomainState {0, CrawlInProgress, 0}.
C15_Witness ==
    /\ last.op = "set_domain_status"
    /\ \E d, e \in DOMAIN domain_state :
          /\ domain_state[d].weight = 1
          /\ domain_state[d].status = "CrawlInProgress"
          /\ domain_state[e] = [weight |-> 0, status |-> "CrawlInProgress", max_shard_id |-> 0]
          /\ ShardsOf(e) = {}

\* C16: CrawlDb::open(p) returns an error whenever p exists, a second open(p)
\* after a successful one included, and then opens or creates no store; it
\* opens the redirects, domains and urls stores only when p does not exist.
C16_OpenGuard ==
    [][last'.op = "open" =>
          /\ RootPath(last'.path) \in paths =>
                /\ last'.err
                /\ last'.opened = <<>>
                /\ paths' = paths
          /\ last'.opened # <<>> => RootPath(last'.path) \notin paths
          /\ ~last'.err =>
                /\ RootPath(last'.path) \notin paths
                /\ last'.opened = <<"redirects", "domains", "urls">>]_vars

\* open(p) returned an error and opened nothing on a path where an earlier
\* open(p) had created the three stores.
C16_Witness ==
    /\ last.op = "open"
    /\ last.err
    /\ last.opened = <<>>
    /\ \A i \in 1..Len(StoreNames) : StorePath(last.path, StoreNames[i]) \in paths

\* C18: insert_urls changes no status: a URL that is in a shard keeps its
\* status there, a DomainState keeps its status, and the URLs and the
\* DomainStates the call creates are Pending.
C18_InsertUrlsKeepsStatus ==
    [][last'.op = "insert_urls" =>
          /\ \A d \in DOMAIN domain_state :
                d \in DOMAIN domain_state' /\ domain_state'[d].status = domain_state[d].status
          /\ \A d \in DOMAIN domain_state' \ DOMAIN domain_state :
                domain_state'[d].status = "Pending"
          /\ \A k \in DOMAIN urls : \A u \in DOMAIN urls[k] :
                (k \in DOMAIN urls' /\ u \in DOMAIN urls'[k]) =>
                    urls'[k][u].status = urls[k][u].status
          /\ \A k \in DOMAIN urls' : \A u \in DOMAIN urls'[k] :
                (k \notin DOMAIN urls \/ u \notin DOMAIN urls[k]) =>
                    urls'[k][u].status = "Pending"]_vars

\* C19: for each target domain, insert_urls writes one shard, the one whose
\* id is the domain's max_shard_id after the call; every other shard of the
\* domain and every shard of a domain that received no URL is as it was.
C19_InsertUrlsWritesNewestShard ==
    [][last'.op = "insert_urls" =>
          LET written == {DomainShard(d, domain_state'[d].max_shard_id) : d \in last'.targets}
          IN  /\ DOMAIN urls' = DOMAIN urls \cup written
              /\ \A k \in DOMAIN urls \ written : urls'[k] = urls[k]]_vars

\* insert_urls rolled domain a over: shard 0 holds URLS_PER_SHARD URLs and the
\* call left a URL in shard 1, the shard of max_shard_id.
C19_Witness ==
    /\ last.op = "insert_urls"
    /\ last.targets = {"a"}
    /\ domain_state["a"].max_shard_id = 1
    /\ DomainShard("a", 0) \in DOMAIN urls
    /\ Cardinality(DOMAIN urls[DomainShard("a", 0)]) = URLS_PER_SHARD
    /\ DOMAIN urls[DomainShard("a", 1)] # {}

\* C20: inside insert_urls the shard of a target domain is put before its
\* DomainState: a call that stops between the two puts for a domain that had
\* a state leaves the shard as the whole call would and the DomainState as it
\* was.
C20_ShardWrittenBeforeDomainState ==
    [][(/\ last'.op = "insert_urls"
        /\ last'.interrupted # <<>>
        /\ last'.interrupted[1] \in DOMAIN domain_state
        /\ last'.interrupted[2] # <<>>) =>
          LET domain == last'.interrupted[1]
              whole  == insert_urls(last'.responses, Stores)
              key    == DomainShard(domain, whole.domain_state[domain].max_shard_id)
          IN  /\ key \in DOMAIN urls'
              /\ urls'[key] = whole.urls[key]
              /\ domain_state'[domain] = domain_state[domain]]_vars

\* C21: a failure inside a public operation (a failed redirect put of the
\* engine in insert_urls, a stored DomainState that fails validation at a
\* point get) is returned to the caller as an error and never panics.
C21_FailuresAreReturned == last.failure # "" => ~last.panic

\* The ways to match every element of a heap with an offered place that has
\* its item and its key, no place twice.
Matchings(heap, items, prios, offered) ==
    {f \in [1..Len(heap) -> 1..offered] :
        /\ \A i, j \in 1..Len(heap) : i # j => f[i] # f[j]
        /\ \A i \in 1..Len(heap) : heap[i] = SampledItem(items[f[i]].item, prios[f[i]])}

\* C22: weighted_sample keeps the k smallest keys: after every iteration the
\* heap holds min(k, offered) of the offered items, no more than k, and no
\* item left out has a key below a key in the heap; an item whose key equals
\* the heap's greatest key does not replace it.
C22_KeepsSmallestKeys ==
    [][last'.op = "weighted_sample" =>
          LET heap == last'.heap
              next == last'.prios[last'.offered]
          IN  /\ Len(heap) <= last'.num
              /\ Len(heap) = Min(last'.num, last'.offered)
              /\ \E f \in Matchings(heap, last'.items, last'.prios, last'.offered) :
                    \A j \in (1..last'.offered) \ Range(f) :
                        \A i \in 1..Len(heap) : heap[i].priority <= last'.prios[j]
              /\ (/\ Len(last.heap) = last.num
                  /\ \A i \in 1..Len(last.heap) : last.heap[i].priority <= next
                  /\ \E i \in 1..Len(last.heap) : last.heap[i].priority = next)
                 => heap = last.heap]_vars

\* Three items with the keys 1, 1, 0 were offered for two places: the third
\* replaced one of the first two.
C22_Witness ==
    /\ last.op = "weighted_sample"
    /\ last.num = 2
    /\ last.offered = 3
    /\ last.prios = <<1, 1, 0>>
    /\ \E i \in 1..Len(last.heap) : last.heap[i].priority = 0

\* C23: a URL is stored in at most one shard of its domain.
C23_UrlInOneShard ==
    \A k1, k2 \in DOMAIN urls :
        (k1 # k2 /\ k1[1] = k2[1]) => DOMAIN urls[k1] \cap DOMAIN urls[k2] = {}

\* The URLs the shards us hold.
UrlsIn(us) == UNION {DOMAIN us[k] : k \in DOMAIN us}

\* C24: no URL is lost: a URL stored in a shard of its domain is stored in a
\* shard of its domain after every call, a rollover of insert_urls after
\* insert_seed_urls reset max_shard_id included.
C24_NoUrlLost == [][UrlsIn(urls) \subseteq UrlsIn(urls')]_vars

\* URL u is stored in shard key with the given status.
HasStatus(key, u, status) ==
    key \in DOMAIN urls /\ u \in DOMAIN urls[key] /\ urls[key][u].status = status

\* C25: under the driver, every URL that is Pending in a shard of a domain is
\* eventually returned in a Job and set to Crawling there.
C25_PendingUrlsGetCrawled ==
    \A key \in DriverShards : \A u \in DriverPages :
        (last.driver /\ HasStatus(key, u, "Pending")) ~> HasStatus(key, u, "Crawling")

====
